---- MODULE Spec2Model ----
(***************************************************************************)
(* Model of chromecastplay: the delivery server of chromecast.py and       *)
(* chromecastplay.py (twisted.web resources File, GrowableFile,            *)
(* ChunkedFile, ChunkedPipe behind CORSRequest) and the top-level          *)
(* orchestration of both programs (transcoder, server process, playback).  *)
(*                                                                         *)
(* Spec         : the delivery server handling requests on its connections.*)
(* RangeSpec    : one connection to a file resource, every Range header.   *)
(* PipeSpec     : the delivery server with ChunkedPipe mounted.            *)
(* MainSpec     : main() of either program, with start_transcoder inlined. *)
(* MainFairSpec : MainSpec with the loop of start_transcoder kept running. *)
(* RunSpec      : main() of chromecastplay.py together with its server.    *)
(* SrtSpec      : srt2vtt applied to subtitle files.                       *)
(***************************************************************************)
EXTENDS Integers, Sequences, FiniteSets, TLC

\* chromecast.py TRANSCODER_BUFSIZE, scaled down from 60000000.
TRANSCODER_BUFSIZE == 2
\* Most bytes the transcoder writes to its temporary file.
MaxOut == 3
\* Largest size of the backing media file, in bytes.
MaxSize == 3
\* Number of bytes the transcoder writes on its pipe before it ends.
SrcLen == 4
\* StaticProducer.bufferSize: the most bytes one read of a producer asks for.
bufferSize == 2

VARIABLES
    \* ---- delivery server (serve) ----
    cfg,        \* [program, variant, vtt]: what serve() mounted
    fileSize,   \* size of the backing file on storage, now
    statCache,  \* File's cached stat result (its st_size)
    srcPos,     \* bytes read so far from the pipe (ChunkedPipe.fileForReading)
    srcClosed,  \* fileForReading.close() was called
    firstGet,   \* the connection of the first GET served from the pipe: "none"
                \* before it, "gone" once that connection was closed
    req,        \* per connection: the request on it and its response so far
    \* ---- orchestration (main) ----
    mcfg,       \* [program, transcode, chunked]: the options of the run
    mpc,        \* where main is
    server,     \* the server Process: none, starting, running, crashed, terminated
    transcoder, \* the media ffmpeg process: none, running, exited
    mflags,     \* what has happened so far in the run (history)
    tmpSize,    \* size of start_transcoder's temporary output file
    playerState,\* mc.status.player_state
    started,    \* control_loop's local of that name
    cmds,       \* the commands sent to the playback device so far
    \* ---- subtitles (read_sub) ----
    sub         \* srt2vtt at work: its input, its locals, its result

svars == <<cfg, fileSize, statCache, srcPos, srcClosed, firstGet, req>>
mvars == <<mcfg, mpc, server, transcoder, mflags, tmpSize, playerState, started, cmds>>
vars == <<cfg, fileSize, statCache, srcPos, srcClosed, firstGet, req,
          mcfg, mpc, server, transcoder, mflags, tmpSize, playerState, started, cmds,
          sub>>

Conn == {"c1", "c2"}

VIDEO_PATH == "video"
SUB_PATH == "sub"
DEFAULT_MIME == "video/mp4"

Min(a, b) == IF a < b THEN a ELSE b

\* The bytes lo .. hi-1 of a file or stream (byte i is written i).
RECURSIVE Bytes(_, _)
Bytes(lo, hi) == IF lo >= hi THEN <<>> ELSE <<lo>> \o Bytes(lo + 1, hi)

(***************************************************************************)
(* Requests.  A Range header is absent (<<>>) or <<[unit, specs]>>, the    *)
(* text "unit=spec,spec"; each spec is <<start, end>>, the texts left and  *)
(* right of '-', and a text is empty (<<>>) or the digits of n (<<n>>).    *)
(***************************************************************************)
Tok == {<<>>} \cup {<<n>> : n \in 0..MaxSize}
RangeSpecs == {<<s, e>> : s \in Tok, e \in Tok}
RangeHeaders ==
    {<<>>}
    \cup {<<[unit |-> "bytes", specs |-> <<r>>]>> : r \in RangeSpecs}
    \cup {<<[unit |-> "items", specs |-> << <<<<0>>, <<>>>> >>]>>,
          <<[unit |-> "bytes", specs |-> << <<<<0>>, <<0>>>>, <<<<1>>, <<>>>> >>]>>}
\* One header per branch of File.makeProducer: none, bytes=0-0, bytes=1-,
\* bytes=-1, a unit that is not bytes, two ranges.
SomeRangeHeaders ==
    {<<>>}
    \cup {<<[unit |-> "bytes", specs |-> <<r>>]>> :
             r \in {<< <<0>>, <<0>> >>, << <<1>>, <<>> >>, << <<>>, <<1>> >>}}
    \cup {<<[unit |-> "items", specs |-> << <<<<0>>, <<>>>> >>]>>,
          <<[unit |-> "bytes", specs |-> << <<<<0>>, <<0>>>>, <<<<1>>, <<>>>> >>]>>}
Methods == {"GET", "HEAD", "POST"}
Paths == {VIDEO_PATH, SUB_PATH, "other"}

NoContentRange == [kind |-> "absent", first |-> 0, last |-> 0, star |-> FALSE, total |-> 0]

\* Response headers of a fresh Request; clen -1: no Content-Length.
NoHeaders ==
    [cors |-> "", ctype |-> "", clen |-> 0 - 1, crange |-> NoContentRange,
     acceptRanges |-> FALSE]

IdleReq ==
    [st |-> "idle", method |-> "", path |-> "", range |-> <<>>,
     code |-> 200, hdr |-> NoHeaders, page |-> "", body |-> <<>>, sent |-> FALSE,
     prod |-> "none", offset |-> 0, size |-> 0, fpos |-> 0, written |-> 0,
     unsent |-> 0, onDisk |-> 0]

(***************************************************************************)
(* CORSRequest.process: the header is set before the request is routed.    *)
(***************************************************************************)
CORSRequest_process_unset(r) == r
CORSRequest_process(r) == [r EXCEPT !.hdr.cors = "*"]

\* Request.processingFailed: an exception left render(); headers set so far stay.
processingFailed(r) ==
    [r EXCEPT !.st = "done", !.code = 500, !.hdr.ctype = "text/html",
              !.hdr.clen = 1, !.page = "500", !.body = <<>>, !.sent = TRUE,
              !.prod = "none"]

\* An error page rendered by a resource (NoResource) or for UnsupportedMethod.
errorPage(r, code, page) ==
    [r EXCEPT !.st = "done", !.code = code, !.hdr.ctype = "text/html; charset=utf-8",
              !.hdr.clen = 1, !.page = page, !.sent = TRUE]

\* Data(vtt_data, 'text/vtt') mounted at SUB_PATH; vtt <<>> is None, <<n>> n bytes.
Data_render_GET(r, vtt) ==
    IF vtt = <<>>
    THEN processingFailed([r EXCEPT !.hdr.ctype = "text/vtt"])
    ELSE [r EXCEPT !.st = "done", !.hdr.ctype = "text/vtt", !.hdr.clen = vtt[1],
                   !.body = IF r.method = "HEAD" THEN <<>> ELSE Bytes(0, vtt[1]),
                   !.sent = TRUE]

(***************************************************************************)
(* File: range parsing and the size it is computed against.                *)
(***************************************************************************)
ValidSpec(r) ==
    IF r[1] # <<>> THEN (r[2] = <<>> \/ r[1][1] <= r[2][1]) ELSE r[2] # <<>>

\* File._parseRangeHeader: ok FALSE is the ValueError it raises.
parseRangeHeader(h) ==
    IF h.unit = "bytes" /\ \A i \in 1..Len(h.specs) : ValidSpec(h.specs[i])
    THEN [ok |-> TRUE, ranges |-> h.specs]
    ELSE [ok |-> FALSE, ranges |-> <<>>]

\* File._rangeToOffsetAndSize
rangeToOffsetAndSize(start, end, size) ==
    LET s1 == IF start = <<>> THEN size - end[1] ELSE start[1]
        e1 == IF start = <<>> \/ end = <<>> THEN size
              ELSE IF end[1] < size THEN end[1] + 1
              ELSE IF end[1] > size THEN size
              ELSE end[1]
    IN  IF s1 >= size THEN <<0, 0>> ELSE <<s1, e1 - s1>>

\* FilePath.getsize as File inherits it: the cached stat, probed when there is none.
File_getsize(cache, actual) == IF cache = <<>> THEN actual ELSE cache[1]

\* GrowableFile.getsize: restat() first, so the size now on storage.
GrowableFile_getsize_cached(cache, actual) == File_getsize(cache, actual)
GrowableFile_getsize(cache, actual) == actual

getsize(variant, cache, actual) ==
    IF variant = "GrowableFile" THEN GrowableFile_getsize(cache, actual)
    ELSE File_getsize(cache, actual)

\* File._contentRange: bytes first-last/total.
File_contentRange(offset, size, total) ==
    [kind |-> "range", first |-> offset, last |-> offset + size - 1,
     star |-> FALSE, total |-> total]

\* GrowableFile._contentRange: bytes first-last/*.
GrowableFile_contentRange_total(offset, size, total) == File_contentRange(offset, size, total)
GrowableFile_contentRange(offset, size, total) ==
    [kind |-> "range", first |-> offset, last |-> offset + size - 1,
     star |-> TRUE, total |-> 0]

\* serve: fileFactory = GrowableFile if growable else File.
contentRange_alwaysGrowable(variant, offset, size, total) ==
    GrowableFile_contentRange(offset, size, total)
contentRange(variant, offset, size, total) ==
    IF variant = "GrowableFile" THEN GrowableFile_contentRange(offset, size, total)
    ELSE File_contentRange(offset, size, total)

\* File._setContentHeaders(request, size)
File_setContentHeaders(r, size) ==
    [r EXCEPT !.hdr.clen = size, !.hdr.ctype = DEFAULT_MIME]

\* File.makeProducer: the response for a GET, given the size getsize() returns.
File_makeProducer(r, variant, size) ==
    LET plain == [File_setContentHeaders(r, size) EXCEPT
                     !.code = 200, !.prod = "norange", !.size = size]
        p == parseRangeHeader(r.range[1])
        os == rangeToOffsetAndSize(p.ranges[1][1], p.ranges[1][2], size)
    IN  IF r.range = <<>> THEN plain
        ELSE IF ~p.ok THEN plain
        ELSE IF Len(p.ranges) = 1 THEN
            IF os[1] = 0 /\ os[2] = 0
            THEN [File_setContentHeaders(r, 0) EXCEPT
                     !.code = 416, !.prod = "single", !.offset = 0, !.size = 0,
                     !.hdr.crange = [kind |-> "unsatisfiable", first |-> 0,
                                     last |-> 0, star |-> FALSE, total |-> size]]
            ELSE [File_setContentHeaders(r, os[2]) EXCEPT
                     !.code = 206, !.prod = "single", !.offset = os[1],
                     !.size = os[2], !.fpos = os[1],
                     !.hdr.crange = contentRange(variant, os[1], os[2], size)]
        ELSE [r EXCEPT !.code = 206, !.prod = "multi", !.size = size,
                       !.hdr.ctype = "multipart/byteranges"]

\* ChunkedFile.makeProducer: never a range producer.
ChunkedFile_makeProducer(r, size) ==
    [File_setContentHeaders(r, size) EXCEPT
        !.code = 200, !.prod = "norange", !.size = size]

\* ChunkedFile.render_GET: the two headers removed after File.render_GET.
ChunkedFile_removeHeaders(r) ==
    [r EXCEPT !.hdr.acceptRanges = FALSE, !.hdr.clen = 0 - 1]

\* File.render_GET after its restat(False): headers, then HEAD or a producer.
\* SingleRangeStaticProducer.start seeks; a negative offset raises in render.
File_render_GET(r, variant, size) ==
    LET r1 == [r EXCEPT !.hdr.acceptRanges = TRUE]
        r2 == IF r.method = "HEAD"
              THEN [File_setContentHeaders(r1, size) EXCEPT !.st = "done", !.sent = TRUE]
              ELSE [(IF variant = "ChunkedFile" THEN ChunkedFile_makeProducer(r1, size)
                     ELSE File_makeProducer(r1, variant, size))
                    EXCEPT !.st = "producing"]
        r3 == IF r2.prod = "single" /\ r2.offset < 0 THEN processingFailed(r2) ELSE r2
    IN  IF variant = "ChunkedFile" THEN ChunkedFile_removeHeaders(r3) ELSE r3

\* ChunkedPipe._setContentHeaders: the MIME type only.
ChunkedPipe_setContentHeaders_asFile(r) == File_setContentHeaders(r, 0)
ChunkedPipe_setContentHeaders(r) == [r EXCEPT !.hdr.ctype = DEFAULT_MIME]

\* ChunkedPipe.render_GET: HEAD answers at once; GET makes a producer on the
\* one shared fileForReading and starts it, whatever was made before.
ChunkedPipe_render_GET_noHead(r) ==
    [ChunkedPipe_setContentHeaders(r) EXCEPT
        !.st = "producing", !.code = 200, !.prod = "pipe"]
ChunkedPipe_render_GET(r) ==
    IF r.method = "HEAD"
    THEN [ChunkedPipe_setContentHeaders(r) EXCEPT !.st = "done", !.sent = TRUE]
    ELSE [ChunkedPipe_setContentHeaders(r) EXCEPT
             !.st = "producing", !.code = 200, !.prod = "pipe"]

(***************************************************************************)
(* The delivery server: serve() mounted cfg.variant at VIDEO_PATH and the  *)
(* subtitle Data at SUB_PATH; each connection carries one request.         *)
(***************************************************************************)
\* chromecast.py serve: GrowableFile if growable else File; vtt_data is None
\* without -s.  chromecastplay.py serve: ChunkedPipe, ChunkedFile or File;
\* vtt_data is what to_webvtt read, possibly nothing.
Configs ==
    {[program |-> "chromecast", variant |-> v, vtt |-> t] :
        v \in {"File", "GrowableFile"}, t \in {<<>>, <<1>>}}
    \cup
    {[program |-> "chromecastplay", variant |-> v, vtt |-> t] :
        v \in {"File", "ChunkedFile", "ChunkedPipe"}, t \in {<<0>>, <<1>>}}

IsFile == cfg.variant # "ChunkedPipe"
\* The variants mounted on a file another process is still writing.
Growing == cfg.variant \in {"GrowableFile", "ChunkedFile"}

ServerInit ==
    /\ cfg \in Configs
    /\ fileSize \in (IF cfg.variant = "ChunkedPipe" THEN {0} ELSE 0..MaxSize)
    /\ statCache = <<>>
    /\ srcPos = 0
    /\ srcClosed = FALSE
    /\ firstGet = "none"
    /\ req = [c \in Conn |-> IdleReq]

\* class ChunkedFile(File), class ChunkedPipe(File): a HEAD request is
\* rendered by the render_GET the subclass defines when Resource.render_HEAD
\* is the method found, and by File.render_GET itself when File binds
\* render_HEAD in its own class body (fh); which one depends on the
\* twisted.web installed.  File.render_GET begins with restat(), which
\* raises on a ChunkedPipe: it has no path.
headViaFile(method, fh) == method = "HEAD" /\ fh

\* Site.getResourceFor and Resource.render, after CORSRequest.process set
\* its header: the response, or for a file at VIDEO_PATH the request as
\* File.render_GET holds it right after restat(False), with the Range header
\* File.makeProducer will read (ChunkedFile.makeProducer never reads it).
route(r, h, fh) ==
    IF r.path = "other" THEN errorPage(r, 404, "404")
    ELSE IF r.method = "POST" THEN errorPage(r, 405, "405")
    ELSE IF r.path = SUB_PATH THEN Data_render_GET(r, cfg.vtt)
    ELSE IF cfg.variant = "ChunkedPipe"
         THEN (IF headViaFile(r.method, fh) THEN processingFailed(r)
               ELSE ChunkedPipe_render_GET(r))
    ELSE [r EXCEPT !.st = "render",
                   !.range = IF cfg.variant = "ChunkedFile" THEN <<>> ELSE h]

\* A request with a Range header of H arrives on connection c:
\* CORSRequest.process.
Arrive(c, H) ==
    /\ req[c].st = "idle"
    /\ \E m \in Methods, p \in Paths, h \in H, fh \in BOOLEAN :
         LET r == route(CORSRequest_process(
                     [IdleReq EXCEPT !.method = m, !.path = p]), h, fh)
         IN  /\ req' = [req EXCEPT ![c] = r]
             /\ statCache' = IF r.st = "render" THEN <<fileSize>> ELSE statCache
             /\ firstGet' = IF r.prod = "pipe" /\ firstGet = "none" THEN c ELSE firstGet
    /\ UNCHANGED <<cfg, fileSize, srcPos, srcClosed, mvars, sub>>

\* The rest of File.render_GET on connection c; the writer of the file may
\* have appended since its restat(False).  onDisk records the size the file
\* has on storage as the headers are built.
Render(c) ==
    /\ req[c].st = "render"
    /\ \E fh \in BOOLEAN :
         LET size == getsize(cfg.variant, statCache, fileSize)
             v == IF headViaFile(req[c].method, fh) /\ cfg.variant = "ChunkedFile"
                  THEN "File" ELSE cfg.variant
         IN  /\ req' = [req EXCEPT ![c] =
                          [File_render_GET(req[c], v, size) EXCEPT
                              !.onDisk = fileSize]]
             /\ statCache' = IF cfg.variant = "GrowableFile" THEN <<fileSize>>
                             ELSE statCache
    /\ UNCHANGED <<cfg, fileSize, srcPos, srcClosed, firstGet, mvars, sub>>

\* Request.finish after unregisterProducer.
finish(r) == [r EXCEPT !.st = "done", !.sent = TRUE, !.prod = "none"]

\* Request.write(data): the bytes go to the transport of the connection,
\* which holds them (unsent) until the network has taken them.
write(r, data) ==
    [r EXCEPT !.body = @ \o data, !.sent = TRUE, !.unsent = @ + Len(data)]

\* makeProducer returns a StaticProducer and render_GET starts it: it
\* registers as a pull producer (registerProducer(self, False)), which the
\* transport resumes only when it holds nothing more to send.
pullReady_push(unsent) == TRUE
pullReady(unsent) == unsent = 0

\* NoRangeStaticProducer.resumeProducing on a file of its own.
NoRange_resumeProducing(r) ==
    LET n == Min(bufferSize, fileSize - r.fpos)
    IN  IF n > 0
        THEN [write(r, Bytes(r.fpos, r.fpos + n)) EXCEPT !.fpos = @ + n, !.written = @ + n]
        ELSE finish(r)

\* SingleRangeStaticProducer.resumeProducing
SingleRange_resumeProducing(r) ==
    LET want == Min(bufferSize, r.size - r.written)
        have == IF fileSize > r.fpos THEN fileSize - r.fpos ELSE 0
        n == Min(want, have)
        r1 == IF n > 0
              THEN [write(r, Bytes(r.fpos, r.fpos + n)) EXCEPT
                       !.fpos = @ + n, !.written = @ + n]
              ELSE r
    IN  IF r1.written = r1.size THEN finish(r1) ELSE r1

\* MultipleRangeStaticProducer, to its end in one step; the multipart
\* boundaries between the ranges are not part of body.
RECURSIVE rangesBody(_, _)
rangesBody(ranges, size) ==
    IF ranges = <<>> THEN <<>>
    ELSE LET os == rangeToOffsetAndSize(ranges[1][1], ranges[1][2], size)
         IN  Bytes(os[1], os[1] + os[2]) \o rangesBody(Tail(ranges), size)

MultipleRange_resumeProducing(r) ==
    finish(write(r, rangesBody(parseRangeHeader(r.range[1]).ranges, r.size)))

\* The transport of connection c is ready for more: resumeProducing of a
\* producer that reads a file of its own.
ResumeFile(c) ==
    /\ req[c].st = "producing"
    /\ req[c].prod \in {"norange", "single", "multi"}
    /\ pullReady(req[c].unsent)
    /\ req' = [req EXCEPT ![c] =
                 IF req[c].prod = "norange" THEN NoRange_resumeProducing(req[c])
                 ELSE IF req[c].prod = "single" THEN SingleRange_resumeProducing(req[c])
                 ELSE MultipleRange_resumeProducing(req[c])]
    /\ UNCHANGED <<cfg, fileSize, statCache, srcPos, srcClosed, firstGet, mvars, sub>>

\* NoRangeStaticProducer.resumeProducing on the shared pipe, not closed:
\* the next bytes of the pipe go to this request; at end of stream the
\* request finishes and stopProducing closes the pipe.
ResumePipe_stopsReactor(c) ==
    /\ req[c].st = "producing"
    /\ req[c].prod = "pipe"
    /\ pullReady(req[c].unsent)
    /\ ~srcClosed
    /\ LET n == Min(bufferSize, SrcLen - srcPos)
       IN  IF n > 0
           THEN /\ req' = [req EXCEPT ![c] = write(req[c], Bytes(srcPos, srcPos + n))]
                /\ srcPos' = srcPos + n
                /\ srcClosed' = srcClosed
                /\ server' = server
           ELSE /\ req' = [req EXCEPT ![c] = finish(req[c])]
                /\ srcPos' = srcPos
                /\ srcClosed' = TRUE
                /\ server' = "stopped"
    /\ UNCHANGED <<cfg, fileSize, statCache, firstGet, mcfg, mpc, transcoder, mflags,
                   tmpSize, playerState, started, cmds, sub>>
ResumePipe(c) ==
    /\ req[c].st = "producing"
    /\ req[c].prod = "pipe"
    /\ pullReady(req[c].unsent)
    /\ ~srcClosed
    /\ LET n == Min(bufferSize, SrcLen - srcPos)
       IN  IF n > 0
           THEN /\ req' = [req EXCEPT ![c] = write(req[c], Bytes(srcPos, srcPos + n))]
                /\ srcPos' = srcPos + n
                /\ srcClosed' = srcClosed
           ELSE /\ req' = [req EXCEPT ![c] = finish(req[c])]
                /\ srcPos' = srcPos
                /\ srcClosed' = TRUE
    /\ UNCHANGED <<cfg, fileSize, statCache, firstGet, mvars, sub>>

\* resumeProducing on the pipe after it was closed: read() raises.  When the
\* producer is first resumed inside render the request is answered 500; when
\* it is resumed from the reactor the error is logged and the response is
\* left as it is, never finished.
ResumeClosedPipe(c) ==
    /\ req[c].st = "producing"
    /\ req[c].prod = "pipe"
    /\ pullReady(req[c].unsent)
    /\ srcClosed
    /\ \/ /\ ~req[c].sent
          /\ req' = [req EXCEPT ![c] = processingFailed(req[c])]
       \/ req' = [req EXCEPT ![c] = [req[c] EXCEPT !.st = "broken", !.prod = "none"]]
    /\ UNCHANGED <<cfg, fileSize, statCache, srcPos, srcClosed, firstGet, mvars, sub>>

\* The client of connection c goes away mid-transfer: the transport calls
\* stopProducing, which closes the producer's file.
stopProducing_leak(closed, prod) == closed
stopProducing(closed, prod) == closed \/ prod = "pipe"

ConnectionLost(c) ==
    /\ req[c].st = "producing"
    /\ srcClosed' = stopProducing(srcClosed, req[c].prod)
    /\ req' = [req EXCEPT ![c] =
                 [req[c] EXCEPT !.st = "lost", !.prod = "none", !.unsent = 0]]
    /\ UNCHANGED <<cfg, fileSize, statCache, srcPos, firstGet, mvars, sub>>

\* The network takes the bytes the transport of connection c holds.
NetSend(c) ==
    /\ req[c].unsent > 0
    /\ req' = [req EXCEPT ![c] = [req[c] EXCEPT !.unsent = 0]]
    /\ UNCHANGED <<cfg, fileSize, statCache, srcPos, srcClosed, firstGet, mvars, sub>>

\* The connection c is over, its response finished, broken off or given
\* up by the client; the server accepts the next connection in its place.
Close(c) ==
    /\ req[c].st \in {"done", "lost", "broken"}
    /\ req' = [req EXCEPT ![c] = IdleReq]
    /\ firstGet' = IF firstGet = c THEN "gone" ELSE firstGet
    /\ UNCHANGED <<cfg, fileSize, statCache, srcPos, srcClosed, mvars, sub>>

\* The process writing the backing file appends a byte.
WriterAppend ==
    /\ Growing
    /\ fileSize < MaxSize
    /\ fileSize' = fileSize + 1
    /\ UNCHANGED <<cfg, statCache, srcPos, srcClosed, firstGet, req, mvars, sub>>

ServerNext ==
    \/ \E c \in Conn : Arrive(c, SomeRangeHeaders)
    \/ \E c \in Conn : Render(c)
    \/ \E c \in Conn : ResumeFile(c)
    \/ \E c \in Conn : ResumePipe(c)
    \/ \E c \in Conn : ResumeClosedPipe(c)
    \/ \E c \in Conn : ConnectionLost(c)
    \/ \E c \in Conn : NetSend(c)
    \/ \E c \in Conn : Close(c)
    \/ WriterAppend


(***************************************************************************)
(* The orchestration: main() of chromecast.py and of chromecastplay.py,    *)
(* with start_transcoder, play and control_loop inlined, the server child  *)
(* process, the media transcoder process and the playback device.          *)
(***************************************************************************)
MainConfigs ==
    {[program |-> "chromecast", transcode |-> t, chunked |-> FALSE] : t \in BOOLEAN}
    \cup
    {[program |-> "chromecastplay", transcode |-> t, chunked |-> k] :
        t \in BOOLEAN, k \in BOOLEAN}

NoFlags ==
    [launchFailed |-> FALSE,    \* Popen of the media transcoder raised
     tmpExists |-> FALSE,       \* the temporary output file is on storage
     atexitReg |-> FALSE,       \* its removal is registered with atexit
     played |-> FALSE,          \* mc.play_media was called
     loopEntered |-> FALSE,     \* control_loop was entered
     terminateCalled |-> FALSE, \* server.terminate() was called
     killCalled |-> FALSE,      \* transcoder.kill() was called
     sawActive |-> FALSE,       \* control_loop saw a player state other than IDLE
     endedBy |-> ""]            \* what ended control_loop: q, idle

\* No subtitles are being converted.
NoSub == [pc |-> "off", parts |-> <<>>, contents |-> <<>>, cues |-> <<>>,
          converted |-> <<>>, out |-> <<>>]

MainInit ==
    /\ sub = NoSub
    /\ mcfg \in MainConfigs
    /\ mpc = "start"
    /\ server = "none"
    /\ transcoder = "none"
    /\ mflags = NoFlags
    /\ tmpSize = 0
    /\ playerState = "UNKNOWN"
    /\ started = FALSE
    /\ cmds = {}

ServerIdle ==
    /\ cfg = [program |-> "chromecast", variant |-> "File", vtt |-> <<>>]
    /\ fileSize = 0
    /\ statCache = <<>>
    /\ srcPos = 0
    /\ srcClosed = FALSE
    /\ firstGet = "none"
    /\ req = [c \in Conn |-> IdleReq]

MainOff ==
    /\ mcfg = [program |-> "chromecast", transcode |-> FALSE, chunked |-> FALSE]
    /\ mpc = "off"
    /\ server = "none"
    /\ transcoder = "none"
    /\ mflags = NoFlags
    /\ tmpSize = 0
    /\ playerState = "UNKNOWN"
    /\ started = FALSE
    /\ cmds = {}

MainIdle == MainOff /\ sub = NoSub

\* chromecastplay.py main: unseekable=chunked, chunked = transcode or args.chunked.
unseekable == mcfg.program = "chromecastplay" /\ (mcfg.transcode \/ mcfg.chunked)

\* main up to the server: chromecast.py goes into start_transcoder when
\* -t is given; chromecastplay.py runs to_webvtt, whose own ffmpeg may fail
\* to launch, which ends main before the server is started.
MainBegin ==
    /\ mpc = "start"
    /\ \/ /\ mcfg.program = "chromecast"
          /\ mpc' = IF mcfg.transcode THEN "spawn" ELSE "server_start"
       \/ /\ mcfg.program = "chromecastplay"
          /\ mpc' \in {"server_start", "raised"}
    /\ UNCHANGED <<svars, sub, mcfg, server, transcoder, mflags, tmpSize, playerState,
                   started, cmds>>

\* start_transcoder: the temporary file is made and its removal registered
\* with atexit, then Popen launches ffmpeg or raises.
StartTranscoderSpawn_registerAfterPopen ==
    /\ mpc = "spawn"
    /\ \/ /\ transcoder' = "running"
          /\ mflags' = [mflags EXCEPT !.tmpExists = TRUE, !.atexitReg = TRUE]
          /\ mpc' = "gate_size"
       \/ /\ transcoder' = transcoder
          /\ mflags' = [mflags EXCEPT !.tmpExists = TRUE, !.launchFailed = TRUE]
          /\ mpc' = "raised"
    /\ UNCHANGED <<svars, sub, mcfg, server, tmpSize, playerState, started, cmds>>
StartTranscoderSpawn ==
    /\ mpc = "spawn"
    /\ \/ /\ transcoder' = "running"
          /\ mflags' = [mflags EXCEPT !.tmpExists = TRUE, !.atexitReg = TRUE]
          /\ mpc' = "gate_size"
       \/ /\ transcoder' = transcoder
          /\ mflags' = [mflags EXCEPT !.tmpExists = TRUE, !.atexitReg = TRUE,
                                      !.launchFailed = TRUE]
          /\ mpc' = "raised"
    /\ UNCHANGED <<svars, sub, mcfg, server, tmpSize, playerState, started, cmds>>

\* start_transcoder's loop condition, left operand:
\* os.path.getsize(outfile) < TRANSCODER_BUFSIZE.
gateSizeBelow_always(size) == TRUE
gateSizeBelow(size) == size < TRANSCODER_BUFSIZE

\* start_transcoder's loop condition, right operand: transcoder.poll() is None.
gatePollIsNone_inverted(t) == t # "running"
gatePollIsNone(t) == t = "running"

\* The loop condition of start_transcoder is evaluated: the size probe, and
\* only when it is below the threshold the poll, happens next.
GateSize ==
    /\ mpc = "gate_size"
    /\ mpc' = IF gateSizeBelow(tmpSize) THEN "gate_poll" ELSE "gate_return"
    /\ UNCHANGED <<svars, sub, mcfg, server, transcoder, mflags, tmpSize, playerState,
                   started, cmds>>

\* transcoder.poll(); while it is None the loop sleeps and probes again.
GatePoll ==
    /\ mpc = "gate_poll"
    /\ mpc' = IF gatePollIsNone(transcoder) THEN "gate_size" ELSE "gate_return"
    /\ UNCHANGED <<svars, sub, mcfg, server, transcoder, mflags, tmpSize, playerState,
                   started, cmds>>

\* start_transcoder returns to main.
GateReturn ==
    /\ mpc = "gate_return"
    /\ mpc' = "server_start"
    /\ UNCHANGED <<svars, sub, mcfg, server, transcoder, mflags, tmpSize, playerState,
                   started, cmds>>

\* server = Process(target=serve, ...); server.start()
ServerStart ==
    /\ mpc = "server_start"
    /\ server' = "starting"
    /\ mpc' = "wait"
    /\ UNCHANGED <<svars, sub, mcfg, transcoder, mflags, tmpSize, playerState, started, cmds>>

\* The server child runs serve().  chromecastplay.py with a bitrate calls
\* get_transcoder there: Popen launches ffmpeg, or raises and the child dies.
ServerBoot ==
    /\ server = "starting"
    /\ IF mcfg.program = "chromecastplay" /\ mcfg.transcode
       THEN \/ /\ transcoder' = "running"
               /\ server' = "running"
               /\ mflags' = mflags
            \/ /\ transcoder' = transcoder
               /\ server' = "crashed"
               /\ mflags' = [mflags EXCEPT !.launchFailed = TRUE]
       ELSE /\ server' = "running"
            /\ UNCHANGED <<transcoder, mflags>>
    /\ UNCHANGED <<svars, sub, mcfg, mpc, tmpSize, playerState, started, cmds>>

\* play: cast.wait()
PlayWait ==
    /\ mpc = "wait"
    /\ mpc' \in {"play_media", "raised"}
    /\ UNCHANGED <<svars, sub, mcfg, server, transcoder, mflags, tmpSize, playerState,
                   started, cmds>>

\* play: mc.play_media(video_url, DEFAULT_MIME, subtitles=sub_url)
PlayMedia ==
    /\ mpc = "play_media"
    /\ mflags' = [mflags EXCEPT !.played = TRUE]
    /\ mpc' \in {"block", "raised"}
    /\ UNCHANGED <<svars, sub, mcfg, server, transcoder, tmpSize, playerState, started, cmds>>

\* play: mc.block_until_active(), then control_loop is entered.
PlayBlock ==
    /\ mpc = "block"
    /\ \/ /\ mpc' = "loop"
          /\ mflags' = [mflags EXCEPT !.loopEntered = TRUE]
       \/ /\ mpc' = "raised"
          /\ mflags' = mflags
    /\ UNCHANGED <<svars, sub, mcfg, server, transcoder, tmpSize, playerState, started, cmds>>

Keys == {"ERR", "space", "q", "RIGHT", "LEFT", "PPAGE", "NPAGE", "UP", "DOWN"}
PlayerStates == {"UNKNOWN", "IDLE", "BUFFERING", "PLAYING", "PAUSED"}

\* The command control_loop sends for key c, "" when it sends none.
keyCommand_seekAlways(c) ==
    IF c = "space" THEN (IF playerState = "PAUSED" THEN "play" ELSE "pause")
    ELSE IF c = "q" THEN "stop"
    ELSE IF c \in {"RIGHT", "LEFT", "PPAGE", "NPAGE"} THEN "seek"
    ELSE IF c \in {"UP", "DOWN"} THEN "volume"
    ELSE ""
keyCommand(c) ==
    IF c = "space" THEN (IF playerState = "PAUSED" THEN "play" ELSE "pause")
    ELSE IF c = "q" THEN "stop"
    ELSE IF c \in {"RIGHT", "LEFT", "PPAGE", "NPAGE"}
         THEN (IF unseekable THEN "" ELSE "seek")
    ELSE IF c \in {"UP", "DOWN"} THEN "volume"
    ELSE ""

\* control_loop: if started and idle_state: break
loopBreaks_idleOnly(st, idle_state) == idle_state
loopBreaks(st, idle_state) == st /\ idle_state

\* One iteration of control_loop's while True.
LoopIter ==
    /\ mpc = "loop"
    /\ \E c \in Keys :
        LET cmd == keyCommand(c)
            idle_state == playerState = "IDLE"
        IN  /\ cmds' = IF cmd = "" THEN cmds ELSE cmds \cup {cmd}
            /\ IF c = "q"
               THEN /\ mpc' = "terminate"
                    /\ mflags' = [mflags EXCEPT !.endedBy = "q"]
                    /\ started' = started
               ELSE /\ started' = (started \/ ~idle_state)
                    /\ IF loopBreaks(started', idle_state)
                       THEN /\ mpc' = "terminate"
                            /\ mflags' = [mflags EXCEPT !.endedBy = "idle"]
                       ELSE /\ mpc' = "loop"
                            /\ mflags' = [mflags EXCEPT
                                             !.sawActive = @ \/ ~idle_state]
    /\ UNCHANGED <<svars, sub, mcfg, server, transcoder, tmpSize, playerState>>

\* A call to the device raises inside control_loop.  chromecastplay.py
\* catches UnsupportedNamespace and goes on with the loop; any other error,
\* and every error in chromecast.py, leaves control_loop, play and main.
LoopRaise ==
    /\ mpc = "loop"
    /\ \/ /\ mcfg.program = "chromecastplay"
          /\ mpc' = "loop"
       \/ mpc' = "raised"
    /\ UNCHANGED <<svars, sub, mcfg, server, transcoder, mflags, tmpSize, playerState,
                   started, cmds>>

\* The playback device changes state.
DeviceChange ==
    /\ mpc = "loop"
    /\ playerState' \in PlayerStates \ {playerState}
    /\ UNCHANGED <<svars, sub, mcfg, mpc, server, transcoder, mflags, tmpSize, started, cmds>>

\* main after play returned: server.terminate().
MainTerminate ==
    /\ mpc = "terminate"
    /\ server' = IF server \in {"starting", "running"} THEN "terminated" ELSE server
    /\ mflags' = [mflags EXCEPT !.terminateCalled = TRUE]
    /\ mpc' = IF mcfg.program = "chromecast" THEN "kill" ELSE "returned"
    /\ UNCHANGED <<svars, sub, mcfg, transcoder, tmpSize, playerState, started, cmds>>

\* chromecast.py main: if transcoder: transcoder.kill().
MainKill ==
    /\ mpc = "kill"
    /\ IF transcoder # "none"
       THEN /\ transcoder' = "exited"
            /\ mflags' = [mflags EXCEPT !.killCalled = TRUE]
       ELSE UNCHANGED <<transcoder, mflags>>
    /\ mpc' = "returned"
    /\ UNCHANGED <<svars, sub, mcfg, server, tmpSize, playerState, started, cmds>>

\* The interpreter exits after main returned or raised and runs its exit
\* functions, the last registered first: the handler start_transcoder
\* registered, and multiprocessing's, which waits for the server child (not
\* a daemon).  multiprocessing registers its own when multiprocessing.util
\* is first imported: by server.start(), after start_transcoder, unless a
\* library imported it before; so either may run first.
AtExit ==
    /\ mpc \in {"returned", "raised"}
    /\ mpc' \in {"join_then_remove", "remove_then_join"}
    /\ UNCHANGED <<svars, sub, mcfg, server, transcoder, mflags, tmpSize, playerState,
                   started, cmds>>

\* The exit function of start_transcoder, when registered: os.remove(outfile).
RemoveTemp ==
    /\ mpc \in {"remove_then_join", "remove"}
    /\ mflags' = [mflags EXCEPT !.tmpExists = IF mflags.atexitReg THEN FALSE ELSE @]
    /\ mpc' = IF mpc = "remove" THEN "exited" ELSE "join"
    /\ UNCHANGED <<svars, sub, mcfg, server, transcoder, tmpSize, playerState, started, cmds>>

\* The exit function of multiprocessing returns when no child is alive.
JoinServer ==
    /\ mpc \in {"join_then_remove", "join"}
    /\ server \notin {"starting", "running"}
    /\ mpc' = IF mpc = "join" THEN "exited" ELSE "remove"
    /\ UNCHANGED <<svars, sub, mcfg, server, transcoder, mflags, tmpSize, playerState,
                   started, cmds>>

\* The media transcoder writes output: to the temporary file in
\* chromecast.py; in chromecastplay.py to the pipe the server child reads,
\* and a write after that child is gone ends the transcoder (SIGPIPE).
TranscoderWrite ==
    /\ transcoder = "running"
    /\ IF mcfg.program = "chromecast"
       THEN /\ tmpSize < MaxOut
            /\ tmpSize' = tmpSize + 1
            /\ transcoder' = transcoder
       ELSE /\ server \in {"crashed", "terminated"}
            /\ transcoder' = "exited"
            /\ tmpSize' = tmpSize
    /\ UNCHANGED <<svars, sub, mcfg, mpc, server, mflags, playerState, started, cmds>>

\* The media transcoder ends by itself: end of input, or an error.
TranscoderExit ==
    /\ transcoder = "running"
    /\ transcoder' = "exited"
    /\ UNCHANGED <<svars, sub, mcfg, mpc, server, mflags, tmpSize, playerState, started, cmds>>

MainNext ==
    \/ MainBegin
    \/ StartTranscoderSpawn
    \/ GateSize
    \/ GatePoll
    \/ GateReturn
    \/ ServerStart
    \/ ServerBoot
    \/ PlayWait
    \/ PlayMedia
    \/ PlayBlock
    \/ LoopIter
    \/ LoopRaise
    \/ DeviceChange
    \/ MainTerminate
    \/ MainKill
    \/ AtExit
    \/ RemoveTemp
    \/ JoinServer
    \/ TranscoderWrite
    \/ TranscoderExit

(***************************************************************************)
(* srt2vtt.  A text is the sequence of its characters.                     *)
(***************************************************************************)
\* Most cues in a subtitle file.
MaxCues == 2

DigitChars == {"0", "1", "2", "3", "4", "5", "6", "7", "8", "9"}
SpaceChars == {" ", "\t", "\n", "\r"}
BlankLine == <<"\n", "\n">>
WEBVTT == <<"W", "E", "B", "V", "T", "T">>

\* The index after the longest run of characters of set in s from i on.
RECURSIVE skipWhile(_, _, _)
skipWhile(s, i, set) ==
    IF i <= Len(s) /\ s[i] \in set THEN skipWhile(s, i + 1, set) ELSE i

\* \d+:\d+:\d+ matched at i: the index after the match, 0 when it fails.
stampEnd(s, i) ==
    LET a == skipWhile(s, i, DigitChars)
        b == skipWhile(s, a + 1, DigitChars)
        c == skipWhile(s, b + 1, DigitChars)
    IN  IF /\ a > i /\ a <= Len(s) /\ s[a] = ":"
           /\ b > a + 1 /\ b <= Len(s) /\ s[b] = ":"
           /\ c > b + 1
        THEN c ELSE 0

\* (?:,(\d+))? matched at i: the index after it, i when the group is skipped.
fracEnd(s, i) ==
    LET e == skipWhile(s, i + 1, DigitChars)
    IN  IF i <= Len(s) /\ s[i] = "," /\ e > i + 1 THEN e ELSE i

\* --?> matched at i: the index after it, 0 when it fails.
arrowEnd(s, i) ==
    IF i + 2 <= Len(s) /\ s[i] = "-" /\ s[i + 1] = "-" /\ s[i + 2] = ">" THEN i + 3
    ELSE IF i + 1 <= Len(s) /\ s[i] = "-" /\ s[i + 1] = ">" THEN i + 2
    ELSE 0

\* The pattern of convert_cue matched with its first character at i.  Every
\* repetition in it is followed by a character it cannot itself match, so
\* the longest run is the only one a match can use.  A group that did not
\* take part (None) is <<>>.
matchAt(s, i) ==
    LET e1 == stampEnd(s, i)
        f1 == fracEnd(s, e1)
        a1 == arrowEnd(s, skipWhile(s, f1, SpaceChars))
        b0 == skipWhile(s, a1, SpaceChars)
        e2 == stampEnd(s, b0)
        f2 == fracEnd(s, e2)
        t0 == skipWhile(s, f2, SpaceChars)
    IN  IF e1 = 0 \/ a1 = 0 \/ e2 = 0
        THEN [ok |-> FALSE, g1 |-> <<>>, g2 |-> <<>>, g3 |-> <<>>, g4 |-> <<>>,
              g5 |-> <<>>]
        ELSE [ok |-> TRUE,
              g1 |-> SubSeq(s, i, e1 - 1), g2 |-> SubSeq(s, e1 + 1, f1 - 1),
              g3 |-> SubSeq(s, b0, e2 - 1), g4 |-> SubSeq(s, e2 + 1, f2 - 1),
              g5 |-> SubSeq(s, t0, Len(s))]

\* re.search: the match at the leftmost index that has one.
search(s) ==
    LET hits == {i \in 1..Len(s) : matchAt(s, i).ok}
    IN  IF hits = {} THEN matchAt(s, Len(s) + 1)
        ELSE matchAt(s, CHOOSE i \in hits : \A j \in hits : i <= j)

\* str.strip()
RECURSIVE rstrip(_)
rstrip(s) ==
    IF s # <<>> /\ s[Len(s)] \in SpaceChars THEN rstrip(SubSeq(s, 1, Len(s) - 1))
    ELSE s
strip(s) == rstrip(SubSeq(s, skipWhile(s, 1, SpaceChars), Len(s)))

\* m.group(n) or '000'
orDefault_keep(g) == g
orDefault(g) == IF g = <<>> THEN <<"0", "0", "0">> ELSE g

\* convert_cue
convert_cue(cue) ==
    LET m == search(cue)
    IN  IF m.ok
        THEN m.g1 \o <<".">> \o orDefault(m.g2) \o <<" ", "-", "-", ">", " ">>
             \o m.g3 \o <<".">> \o orDefault(m.g4) \o <<"\n">> \o strip(m.g5)
        ELSE <<>>

\* contents.split('\n\n')
RECURSIVE split(_)
split(s) ==
    LET at == {i \in 1..(Len(s) - 1) : s[i] = "\n" /\ s[i + 1] = "\n"}
        i == CHOOSE k \in at : \A j \in at : k <= j
    IN  IF at = {} THEN <<s>>
        ELSE <<SubSeq(s, 1, i - 1)>> \o split(SubSeq(s, i + 2, Len(s)))

\* '\n\n'.join(texts), texts not empty
RECURSIVE join(_)
join(texts) ==
    IF Len(texts) = 1 THEN texts[1]
    ELSE texts[1] \o BlankLine \o join(Tail(texts))

\* The cues of the subtitle files given to srt2vtt: an index line or none,
\* start and end time with or without a fraction after a comma, either
\* separator, and a line of text.
Fracs == {<<>>, <<"5">>, <<"0", "4", "0">>}
Arrows == {<<" ", "-", "-", ">", " ">>, <<"-", ">">>}
CueParts ==
    [idx : BOOLEAN,
     start : {<<"0", ":", "0", "0", ":", "0", "1">>}, f1 : Fracs,
     arrow : Arrows,
     end : {<<"1", "2", ":", "3", "4", ":", "5", "6">>}, f2 : Fracs,
     text : {<<"H", "i">>}]

withComma(f) == IF f = <<>> THEN <<>> ELSE <<",">> \o f

\* The text of a cue in the file.
cueText(p) ==
    (IF p.idx THEN <<"7", "\n">> ELSE <<>>)
    \o p.start \o withComma(p.f1) \o p.arrow \o p.end \o withComma(p.f2)
    \o <<"\n">> \o p.text

SubFiles == UNION {[1..n -> CueParts] : n \in 1..MaxCues}

\* read_sub read a file of cues separated by blank lines, ending in a newline.
SrtInit ==
    /\ ServerIdle
    /\ MainOff
    /\ \E parts \in SubFiles :
         sub = [pc |-> "split", parts |-> parts,
                contents |-> join([i \in 1..Len(parts) |-> cueText(parts[i])])
                             \o <<"\n">>,
                cues |-> <<>>, converted |-> <<>>, out |-> <<>>]

\* cues = contents.split('\n\n')
SrtSplit ==
    /\ sub.pc = "split"
    /\ sub' = [sub EXCEPT !.pc = "convert", !.cues = split(sub.contents)]
    /\ UNCHANGED <<svars, mvars>>

\* The generator the join draws from: convert_cue(cue) for the next cue.
SrtConvert ==
    /\ sub.pc = "convert"
    /\ sub.cues # <<>>
    /\ sub' = [sub EXCEPT !.cues = Tail(@),
                          !.converted = @ \o <<convert_cue(Head(sub.cues))>>]
    /\ UNCHANGED <<svars, mvars>>

\* '\n\n'.join(chain(['WEBVTT'], ...)) once the cues are used up.
SrtJoin ==
    /\ sub.pc = "convert"
    /\ sub.cues = <<>>
    /\ sub' = [sub EXCEPT !.pc = "done", !.out = join(<<WEBVTT>> \o sub.converted)]
    /\ UNCHANGED <<svars, mvars>>

SrtNext ==
    \/ SrtSplit
    \/ SrtConvert
    \/ SrtJoin
SrtSpec == SrtInit /\ [][SrtNext]_vars

Init == ServerInit /\ MainIdle
Next == ServerNext
Spec == Init /\ [][Next]_vars

\* One request on one connection to a file resource, with every Range
\* header of RangeHeaders.
RangeInit == ServerInit /\ IsFile /\ MainIdle
RangeNext ==
    \/ Arrive("c1", RangeHeaders)
    \/ Render("c1")
    \/ ResumeFile("c1")
    \/ ConnectionLost("c1")
    \/ NetSend("c1")
    \/ WriterAppend
RangeSpec == RangeInit /\ [][RangeNext]_vars

\* The delivery server of chromecastplay.py with a bitrate: ChunkedPipe is
\* mounted at VIDEO_PATH, and requests carry no Range header.
PipeInit == ServerInit /\ cfg.variant = "ChunkedPipe" /\ MainIdle
PipeNext ==
    \/ \E c \in Conn : Arrive(c, {<<>>})
    \/ \E c \in Conn : ResumePipe(c)
    \/ \E c \in Conn : ResumeClosedPipe(c)
    \/ \E c \in Conn : ConnectionLost(c)
    \/ \E c \in Conn : NetSend(c)
    \/ \E c \in Conn : Close(c)
PipeSpec == PipeInit /\ [][PipeNext]_vars

\* chromecastplay.py serve: what it mounts at VIDEO_PATH for the options of
\* the run.
variantOf(m) ==
    IF m.transcode THEN "ChunkedPipe"
    ELSE IF m.chunked THEN "ChunkedFile"
    ELSE "File"

\* A run of chromecastplay.py as a whole: main, and the server child it
\* starts handling requests on one connection at a time while it runs.
RunInit ==
    /\ ServerInit
    /\ MainInit
    /\ mcfg.program = "chromecastplay"
    /\ cfg.program = "chromecastplay"
    /\ cfg.variant = variantOf(mcfg)
    /\ cfg.vtt = <<1>>
    /\ fileSize \in {0, MaxSize - 1}
RunNext ==
    \/ MainBegin
    \/ ServerStart
    \/ ServerBoot
    \/ PlayWait
    \/ PlayMedia
    \/ PlayBlock
    \/ LoopIter
    \/ LoopRaise
    \/ DeviceChange
    \/ MainTerminate
    \/ AtExit
    \/ RemoveTemp
    \/ JoinServer
    \/ TranscoderWrite
    \/ TranscoderExit
    \/ server = "running" /\ Arrive("c1", {<<>>})
    \/ server = "running" /\ Render("c1")
    \/ server = "running" /\ ResumeFile("c1")
    \/ server = "running" /\ ResumePipe("c1")
    \/ server = "running" /\ ResumeClosedPipe("c1")
    \/ server = "running" /\ ConnectionLost("c1")
    \/ server = "running" /\ NetSend("c1")
    \/ server = "running" /\ Close("c1")
    \/ WriterAppend
RunSpec == RunInit /\ [][RunNext]_vars

\* main() of either program, from its start to the exit of the interpreter.
MainSpecInit == ServerIdle /\ MainInit
MainSpec == MainSpecInit /\ [][MainNext]_vars

\* The same, with main's thread kept scheduled while it is in the loop of
\* start_transcoder: the loop sleeps a second and evaluates its condition
\* again.
MainFairSpec ==
    /\ MainSpecInit
    /\ [][MainNext]_vars
    /\ WF_vars(GateSize)
    /\ WF_vars(GatePoll)
    /\ WF_vars(GateReturn)

(***************************************************************************)
(* Properties of the delivery server.                                      *)
(***************************************************************************)
PipeGet(c) ==
    /\ cfg.variant = "ChunkedPipe"
    /\ req[c].path = VIDEO_PATH
    /\ req[c].method = "GET"
    /\ req[c].st # "idle"

\* C1: one pipe serves at most one GET: a second GET on /video, arriving
\* while the first is in flight or after it, is never handed bytes read from
\* the shared source.
C1_OneReaderOfPipe ==
    Cardinality({c \in Conn : PipeGet(c) /\ req[c].body # <<>>}) <= 1

\* C2: the body of the first GET served from the pipe is the bytes the
\* source produced, in production order: always a prefix of them, and all of
\* them once the response is finished.
C2_FirstGetBodyIsSource ==
    firstGet \in Conn =>
        /\ req[firstGet].body = Bytes(0, Len(req[firstGet].body))
        /\ (req[firstGet].st = "done" /\ req[firstGet].code = 200
               => req[firstGet].body = Bytes(0, SrcLen))

\* A response of the file at VIDEO_PATH whose headers have been built.
Built(c) ==
    /\ IsFile
    /\ req[c].path = VIDEO_PATH
    /\ req[c].method \in {"GET", "HEAD"}
    /\ req[c].st \notin {"idle", "render"}

\* The Range header of the request on c is the one range start-end.
SingleRange(c) ==
    /\ req[c].method = "GET"
    /\ req[c].range # <<>>
    /\ req[c].range[1].unit = "bytes"
    /\ Len(req[c].range[1].specs) = 1
    /\ ValidSpec(req[c].range[1].specs[1])
RStart(c) == req[c].range[1].specs[1][1]
REnd(c) == req[c].range[1].specs[1][2]

\* C7: every size a GrowableFile response declares is the size the file had
\* on storage when that response's headers were built: the Content-Length of
\* a full response, the size reported by an unsatisfiable-range response, the
\* end of an open-ended range.
C7_GrowableSizeIsFresh ==
    \A c \in Conn :
        Built(c) /\ cfg.variant = "GrowableFile" =>
            /\ req[c].code = 200 => req[c].hdr.clen = req[c].onDisk
            /\ req[c].code = 416 => req[c].hdr.crange.total = req[c].onDisk
            /\ (req[c].code = 206 /\ SingleRange(c) /\ RStart(c) # <<>> /\ REnd(c) = <<>>)
                  => req[c].hdr.crange.last + 1 = req[c].onDisk

\* C7 witness: the file grew between two requests and the second response
\* declares the larger size.
C7_Witness ==
    /\ cfg.variant = "GrowableFile"
    /\ Built("c1") /\ Built("c2")
    /\ req["c1"].code = 200 /\ req["c2"].code = 200
    /\ req["c1"].st = "done"
    /\ req["c1"].hdr.clen < req["c2"].hdr.clen
    /\ req["c2"].hdr.clen = fileSize

\* C8: a static file of size N answers bytes=s-e (0 <= s <= e <= N-1) and
\* bytes=s- (s < N) with 206, Content-Range bytes s-e/N (e = N-1 when open)
\* and Content-Length e-s+1, and delivers exactly those bytes; it answers a
\* range starting at or beyond N with 416 reporting N.
C8_StaticRange ==
    \A c \in Conn :
        (Built(c) /\ cfg.variant = "File" /\ SingleRange(c) /\ RStart(c) # <<>>) =>
            LET N == fileSize
                s == RStart(c)[1]
                e == IF REnd(c) = <<>> THEN N - 1 ELSE REnd(c)[1]
            IN  /\ (s <= e /\ e <= N - 1) =>
                    /\ req[c].code = 206
                    /\ req[c].hdr.crange =
                          [kind |-> "range", first |-> s, last |-> e,
                           star |-> FALSE, total |-> N]
                    /\ req[c].hdr.clen = e - s + 1
                    /\ req[c].st = "done" => req[c].body = Bytes(s, e + 1)
                /\ s >= N =>
                    /\ req[c].code = 416
                    /\ req[c].hdr.crange.kind = "unsatisfiable"
                    /\ req[c].hdr.crange.total = N
                    /\ req[c].body = <<>>

\* C8 witness: bytes=0-(N-1) on a static file of N = MaxSize bytes, answered
\* to its end.
C8_Witness ==
    /\ cfg.variant = "File" /\ fileSize = MaxSize
    /\ Built("c1") /\ SingleRange("c1")
    /\ RStart("c1") = <<0>> /\ REnd("c1") = <<MaxSize - 1>>
    /\ req["c1"].st = "done"
    /\ req["c1"].code = 206
    /\ req["c1"].body = Bytes(0, MaxSize)

\* C9: in a partial-content response the total of Content-Range is '*' for
\* the growable file and the exact file length for the static file, and its
\* first and last byte positions are offset and offset+size-1 of the range
\* served, the bytes the response delivers.
C9_ContentRangeTotal ==
    \A c \in Conn :
        (Built(c) /\ req[c].code = 206 /\ req[c].hdr.crange.kind = "range") =>
            /\ req[c].hdr.crange.star = (cfg.variant = "GrowableFile")
            /\ cfg.variant = "File" => req[c].hdr.crange.total = fileSize
            /\ req[c].hdr.crange.first = req[c].offset
            /\ req[c].hdr.crange.last = req[c].offset + req[c].hdr.clen - 1
            /\ req[c].st = "done" =>
                  req[c].body = Bytes(req[c].hdr.crange.first, req[c].hdr.crange.last + 1)

\* C9 witness: a growable file answered a range to its end with total '*'.
C9_Witness ==
    /\ cfg.variant = "GrowableFile"
    /\ Built("c1") /\ req["c1"].code = 206 /\ req["c1"].st = "done"
    /\ req["c1"].hdr.crange.star
    /\ req["c1"].hdr.crange.first > 0
    /\ req["c1"].hdr.crange.last > req["c1"].hdr.crange.first

\* C10: every response the server sends carries
\* Access-Control-Allow-Origin: *.
C10_CorsOnEveryResponse ==
    \A c \in Conn : req[c].sent => req[c].hdr.cors = "*"

\* C10 witness: a piped response served to its end and then a failed piped
\* request, both sent with the header.
C10_Witness ==
    /\ PipeGet("c1") /\ req["c1"].st = "done" /\ req["c1"].code = 200
    /\ PipeGet("c2") /\ req["c2"].sent /\ req["c2"].code = 500
    /\ req["c2"].hdr.cors = "*"

\* A HEAD request for the piped media resource, answered.
PipeHead(c) ==
    /\ cfg.variant = "ChunkedPipe"
    /\ req[c].path = VIDEO_PATH
    /\ req[c].method = "HEAD"
    /\ req[c].st # "idle"

\* C11: a HEAD request on the piped media resource is answered at once with
\* headers and no body byte, and it reads nothing from the source: every
\* step that moves the read position of the pipe or closes it is a step of
\* a GET in production, so the position is the same before and after any
\* number of HEAD requests and the first GET after them starts at byte 0.
C11_HeadConsumesNothing ==
    [][/\ \A c \in Conn :
            PipeHead(c)' => /\ req'[c].st = "done"
                            /\ req'[c].sent
                            /\ req'[c].body = <<>>
                            /\ req'[c].unsent = 0
       /\ (srcPos' # srcPos \/ srcClosed' # srcClosed) =>
            \E c \in Conn : /\ PipeGet(c)
                            /\ req[c].st = "producing"
                            /\ req'[c] # req[c]
       /\ (\A c \in Conn : req[c].st = "idle") /\ firstGet = "none" =>
            srcPos = 0 /\ ~srcClosed]_vars

\* C11 witness: a HEAD answered on one connection, and a GET on the other
\* served from byte 0 to the end of the stream.
C11_Witness ==
    /\ PipeHead("c1") /\ req["c1"].st = "done" /\ req["c1"].body = <<>>
    /\ PipeGet("c2") /\ req["c2"].st = "done" /\ req["c2"].code = 200
    /\ req["c2"].body = Bytes(0, SrcLen)

C16_PullBased ==
    [][/\ \A c \in Conn : PipeGet(c)' => req'[c].unsent <= bufferSize
       /\ srcPos' # srcPos =>
            \E c \in Conn : /\ PipeGet(c)
                            /\ req[c].unsent = 0
                            /\ req'[c].unsent = srcPos' - srcPos
                            /\ srcPos' - srcPos <= bufferSize]_vars

\* C16 witness: one chunk was read and written and the network has not
\* taken it, while the source has more to give.
C16_Witness ==
    /\ PipeGet("c1") /\ req["c1"].st = "producing"
    /\ req["c1"].unsent = bufferSize
    /\ srcPos = bufferSize /\ srcPos < SrcLen /\ ~srcClosed

\* C17: when the client of a piped GET goes away mid-transfer the source is
\* released (the pipe is closed) at that step, which leaves the server
\* process running and main where it was; from then on nothing is read from
\* the pipe and that response gets no further byte and never becomes an
\* error response, until the connection is closed and the next accepted.
C17_DisconnectReleasesSource ==
    [][\A c \in Conn :
          /\ (PipeGet(c) /\ req[c].st = "producing" /\ req'[c].st = "lost") =>
                /\ srcClosed' /\ srcPos' = srcPos
                /\ server' = "running" /\ mpc' = mpc /\ mflags' = mflags
          /\ (PipeGet(c) /\ req[c].st = "lost") =>
                /\ srcClosed /\ srcClosed' /\ srcPos' = srcPos
                /\ req'[c] \in {req[c], IdleReq}]_vars

\* C17 witness: the client of the piped GET went away after one chunk, with
\* more of the stream to come; the server, still running under
\* control_loop, closed that connection and has answered a request for the
\* subtitles on the next.
C17_Witness ==
    /\ cfg.variant = "ChunkedPipe"
    /\ firstGet = "gone" /\ srcClosed /\ srcPos = bufferSize /\ srcPos < SrcLen
    /\ server = "running" /\ mpc = "loop"
    /\ req["c1"].path = SUB_PATH /\ req["c1"].st = "done" /\ req["c1"].code = 200

(***************************************************************************)
(* Properties of the orchestration.                                        *)
(***************************************************************************)
\* main has ended: it returned, or an error left it, or the interpreter is
\* on its way out after either.
MainEnded ==
    mpc \in {"returned", "raised", "join_then_remove", "remove_then_join",
             "join", "remove", "exited"}

\* C3: at the moment start_transcoder returns, the temporary file has
\* reached TRANSCODER_BUFSIZE or the transcoder has exited: it never returns
\* while the file is below the threshold and the transcoder is running.
C3_GateHolds ==
    mpc = "gate_return" =>
        (tmpSize >= TRANSCODER_BUFSIZE \/ transcoder # "running")

\* C3 witness: start_transcoder returns with the transcoder still running,
\* the threshold having been reached.
C3_Witness ==
    /\ mpc = "gate_return"
    /\ transcoder = "running"
    /\ tmpSize >= TRANSCODER_BUFSIZE

\* C4: in chromecast.py, whenever main has ended after the server was
\* started, by normal completion or by an error of playback control,
\* server.terminate() was called and, with -t, transcoder.kill() was called.
C4_TeardownOnEveryExit ==
    (mcfg.program = "chromecast" /\ MainEnded /\ server # "none") =>
        /\ mflags.terminateCalled
        /\ mcfg.transcode => mflags.killCalled

\* C5: in chromecastplay.py, once main has shut the run down (its
\* server.terminate() is done and main returns) no media transcoder spawned
\* by the run is alive.
C5_NoTranscoderAfterMain ==
    (mcfg.program = "chromecastplay" /\ MainEnded /\ mflags.terminateCalled)
        => transcoder # "running"

\* C6: if the media transcoder failed to launch, the device is never told to
\* play and control_loop is never entered, in either program.
C6_LaunchFailureAborts ==
    mflags.launchFailed => (~mflags.played /\ ~mflags.loopEntered)

\* C13: when the orchestrating process has exited, the temporary file of
\* start_transcoder is not on storage, whichever way main ended after
\* start_transcoder was entered: by returning, by the transcoder failing to
\* launch or ending early, or by an error of play or control_loop.
C13_TempFileGoneAtExit ==
    mpc = "exited" => ~mflags.tmpExists

\* C13 witness: the transcoder failed to launch, main ended by that error
\* and the process has exited with the temporary file removed.
C13_Witness ==
    /\ mpc = "exited"
    /\ mflags.launchFailed
    /\ mflags.atexitReg
    /\ ~mflags.tmpExists

\* C14: the delivery server never stops by itself: no step of request
\* handling (a response completing, a piped stream reaching its end, a
\* client going away) takes the server process out of running; the one step
\* that does is main's server.terminate(), reached only after control_loop
\* returned.
C14_ServerStopsOnlyByParent ==
    [][(server = "running" /\ server' # "running") =>
          /\ mpc = "terminate"
          /\ server' = "terminated"
          /\ mflags.loopEntered
          /\ mflags.endedBy \in {"q", "idle"}]_vars

\* C14 witness: the piped stream was served to its end and that connection
\* closed, and the server, still running, has answered a request for the
\* subtitles on the next connection.
C14_Witness ==
    /\ server = "running"
    /\ cfg.variant = "ChunkedPipe"
    /\ srcPos = SrcLen /\ srcClosed /\ firstGet = "gone"
    /\ req["c1"].path = SUB_PATH /\ req["c1"].st = "done" /\ req["c1"].code = 200

(***************************************************************************)
(* Properties of srt2vtt.                                                  *)
(***************************************************************************)
\* The cue WebVTT expects for the cue made of parts p.
vttCue(p) ==
    p.start \o <<".">> \o (IF p.f1 = <<>> THEN <<"0", "0", "0">> ELSE p.f1)
    \o <<" ", "-", "-", ">", " ">>
    \o p.end \o <<".">> \o (IF p.f2 = <<>> THEN <<"0", "0", "0">> ELSE p.f2)
    \o <<"\n">> \o p.text

\* C15: for a file whose cues have the timing line H:MM:SS[,fff] -->
\* H:MM:SS[,fff] (or ->), the result of srt2vtt is the line WEBVTT, a blank
\* line, and the cues in order joined by blank lines, each with the timing
\* line H:MM:SS.fff --> H:MM:SS.fff of the same hour, minute and second
\* digits and the same fraction digits, 000 where a side had none, followed
\* by its text.
C15_Srt2Vtt ==
    sub.pc = "done" =>
        sub.out = join(<<WEBVTT>> \o [i \in 1..Len(sub.parts) |-> vttCue(sub.parts[i])])

\* C15 witness: a file of MaxCues cues converted, the first with an index
\* line, a fraction on its end time only and the separator ->, the last
\* with fractions on both sides.
C15_Witness ==
    /\ sub.pc = "done"
    /\ Len(sub.parts) = MaxCues
    /\ sub.parts[1].idx /\ sub.parts[1].f1 = <<>> /\ sub.parts[1].f2 = <<"5">>
    /\ sub.parts[1].arrow = <<"-", ">">>
    /\ sub.parts[MaxCues].f1 = <<"0", "4", "0">> /\ sub.parts[MaxCues].f2 = <<"5">>
    /\ Len(sub.converted) = MaxCues

\* main is in the loop of start_transcoder.
InGate == mpc \in {"gate_size", "gate_poll"}

\* C18: once the transcoder has exited or its file has reached
\* TRANSCODER_BUFSIZE while start_transcoder is in its loop, start_transcoder
\* returns; so it stays in the loop forever only while the transcoder keeps
\* running with the file below the threshold.
C18_GateTerminates ==
    (InGate /\ (transcoder = "exited" \/ tmpSize >= TRANSCODER_BUFSIZE))
        ~> (mpc = "server_start")

\* C18 witness: start_transcoder returns after the transcoder exited early,
\* its file still below the threshold.
C18_Witness ==
    /\ mpc = "gate_return"
    /\ transcoder = "exited"
    /\ tmpSize < TRANSCODER_BUFSIZE
    /\ tmpSize > 0

\* C19: control_loop returns in one of two ways only: on the key q, with a
\* stop command sent to the device, or on seeing the player IDLE after it
\* saw it in another state at least once (an IDLE seen before that does not
\* end the loop); and main calls server.terminate() only after control_loop
\* returned.
C19_LoopEnds ==
    [][/\ (mpc = "loop" /\ mpc' = "terminate") =>
            \/ mflags'.endedBy = "q" /\ "stop" \in cmds'
            \/ mflags'.endedBy = "idle" /\ playerState = "IDLE" /\ mflags.sawActive
       /\ (mpc # "terminate" /\ mpc' = "terminate") => mpc = "loop"
       /\ (~mflags.terminateCalled /\ mflags'.terminateCalled) =>
            /\ mpc = "terminate"
            /\ mflags.loopEntered
            /\ mflags.endedBy \in {"q", "idle"}]_vars

\* C19 witness: the player was seen in a state other than IDLE and then
\* IDLE, which ended the loop with no stop command sent; main has called
\* server.terminate().
C19_Witness ==
    /\ mflags.endedBy = "idle"
    /\ mflags.sawActive
    /\ mflags.terminateCalled
    /\ "stop" \notin cmds

\* C20: in chromecastplay.py, when serve mounts ChunkedFile or ChunkedPipe
\* (chunked, transcode or bitrate option), no seek command is sent to the
\* device, whatever keys are pressed.
C20_NoSeekWhenUnseekable ==
    (mcfg.program = "chromecastplay"
        /\ variantOf(mcfg) \in {"ChunkedFile", "ChunkedPipe"})
      => "seek" \notin cmds

\* C20 witness: an unseekable run in which play, pause, volume and stop
\* commands were all sent.
C20_Witness ==
    /\ mcfg.program = "chromecastplay"
    /\ variantOf(mcfg) = "ChunkedPipe"
    /\ {"play", "pause", "volume", "stop"} \subseteq cmds
    /\ mflags.endedBy = "q"

====
